---- MODULE Spec2Model ----
(***************************************************************************)
(* Model of the PMO dashboard client (React components under               *)
(* frontend/src) and of the scoring / discrepancy contract it relies on.   *)
(*                                                                         *)
(* The client code is translated from the components.  The remote service  *)
(* (tier classifier, score aggregator, batch assembler, discrepancy        *)
(* validator, configuration load, stored history) is not part of the       *)
(* client sources; its operators are written from the contract in spec.md  *)
(* and are marked as such where they are defined.                          *)
(*                                                                         *)
(* Each area has its own variables and its own specification; a            *)
(* specification holds the variables of the other areas at their idle      *)
(* values.                                                                 *)
(***************************************************************************)
EXTENDS Integers, Sequences, FiniteSets, TLC

VARIABLES
    \* ---- tier classification (spec.md 4.1, getScoreColor of both priority views)
    score,              \* the score handed to the classifiers
    tier,               \* classifyTier(score), or NoTier before the call
    batchScoreColor,    \* PriorityBatchView.getScoreColor(score)
    detailScoreColor,   \* HistoryDetail.getScoreColor(score)
    \* ---- severity classification (getSeverityStyles of both views)
    severity,           \* item.severity of the discrepancy being rendered
    dashboardStyles,    \* ResultsDashboard.getSeverityStyles(severity)
    detailStyles,       \* HistoryDetail.getSeverityStyles(severity)
    \* ---- score aggregation (spec.md 4.3, ProjectScorer result panel)
    weights,            \* the service's weight table, in hundredths
    factors,            \* the payload of POST /prioritize
    priorityResult,     \* the PriorityResult of the response, or NoResult
    \* ---- batch scoring (spec.md 4.5, PriorityBatchView)
    sheet,              \* the projects of the spreadsheet the user owns
    file,               \* PriorityBatchView state: file
    isLoading,          \* PriorityBatchView state: isLoading
    error,              \* PriorityBatchView state: error
    results,            \* PriorityBatchView state: results
    batchRequest,       \* the POST /prioritize/batch in flight, or NoRequest
    \* ---- discrepancy records (spec.md 4.4, the discrepancy lists of both views)
    discrepancies,      \* results.discrepancies / data.discrepancies as received
    validation,         \* validate(item) for each item, or <<>> before the call
    argumentsAfter,     \* the items as they are after the validate calls
    dashboardCards,     \* the cards ResultsDashboard shows, or NotRendered
    detailCards,        \* the cards CrossCheckDetail shows, or NotRendered
    countsShown,        \* the "N problema(s)" badge of each of the two views
    \* ---- ProjectScorer
    formData,           \* ProjectScorer state: formData
    scorerResult,       \* ProjectScorer state: result
    scorerLoading,      \* ProjectScorer state: isLoading
    scorerError,        \* ProjectScorer state: error
    scoreRequest,       \* the POST /prioritize in flight, or NoRequest
    gestures,           \* slider moves and button presses so far
    \* ---- service configuration (spec.md 4.1, 4.3, 7)
    config,             \* the thresholds and weights the service is started with
    moduleState,        \* "loading", "initialized" or "ConfigurationError"
    served,             \* the calls the service has answered, in order
    \* ---- History and HistoryDetail
    stored,             \* the history records the service holds
    historyTab,         \* History state: activeTab
    crosscheckRecords,  \* History state: crosscheckRecords
    priorityRecords,    \* History state: priorityRecords
    historyLoading,     \* History state: isLoading
    historyError,       \* History state: error
    selectedRecord,     \* History state: selectedRecord
    listRequests,       \* the state of each request of fetchHistory
    detailInstance,     \* how many HistoryDetail components were mounted so far
    detailData,         \* HistoryDetail state: data
    detailLoading,      \* HistoryDetail state: isLoading
    detailError,        \* HistoryDetail state: error
    detailRequests,     \* the detail requests in flight
    requestLog,         \* every request sent to a history endpoint
    \* ---- App and CrossCheckView
    activeTab,          \* App state: activeTab
    analysisResults,    \* App state: analysisResults
    excelFile,          \* CrossCheckView state: excelFile
    pptxFile,           \* CrossCheckView state: pptxFile
    crossLoading,       \* CrossCheckView state: isLoading
    crossError,         \* CrossCheckView state: error
    success,            \* CrossCheckView state: success
    viewInstance,       \* how many CrossCheckView components were mounted so far
    analyzeRequests     \* the POST /analyze requests in flight

tierVars == <<score, tier, batchScoreColor, detailScoreColor>>
severityVars == <<severity, dashboardStyles, detailStyles>>
aggregateVars == <<weights, factors, priorityResult>>
batchVars == <<sheet, file, isLoading, error, results, batchRequest>>
discrepancyVars ==
    <<discrepancies, validation, argumentsAfter, dashboardCards, detailCards,
      countsShown>>
coreVars == <<tierVars, severityVars, aggregateVars, batchVars>>
scorerVars ==
    <<formData, scorerResult, scorerLoading, scorerError, scoreRequest, gestures>>
configVars == <<config, moduleState, served>>
historyVars ==
    <<stored, historyTab, crosscheckRecords, priorityRecords, historyLoading,
      historyError, selectedRecord, listRequests, detailInstance, detailData,
      detailLoading, detailError, detailRequests, requestLog>>
crossVars ==
    <<activeTab, analysisResults, excelFile, pptxFile, crossLoading, crossError,
      success, viewInstance, analyzeRequests>>
laterVars == <<discrepancyVars, scorerVars, configVars, historyVars, crossVars>>
vars == <<coreVars, laterVars>>

-----------------------------------------------------------------------------
(* Tier classification                                                     *)

NoTier == [name |-> "none", lower |-> -1, color |-> "none"]
NoColor == "unset"

\* spec.md 4.1: the bands, listed high to low.
TierTable ==
    << [name |-> "Critical", lower |-> 80, color |-> "red"],
       [name |-> "High",     lower |-> 60, color |-> "orange"],
       [name |-> "Medium",   lower |-> 40, color |-> "yellow"],
       [name |-> "Low",      lower |-> 0,  color |-> "green"] >>

RECURSIVE ScanTiers(_, _)
ScanTiers(s, i) ==
    IF i > Len(TierTable) THEN NoTier
    ELSE IF TierTable[i].lower <= s THEN TierTable[i]
    ELSE ScanTiers(s, i + 1)

\* spec.md 4.1: the failure for a score that is no integer in [0,100].
TierRangeError == [name |-> "RangeError", lower |-> -1, color |-> "none"]

\* spec.md 4.1: the highest-threshold tier whose lower bound is <= score;
\* fails with a RangeError kind for a score outside [0,100].
classifyTier(s) == IF s \in 0..100 THEN ScanTiers(s, 1) ELSE TierRangeError

PriorityBatchView_getScoreColor_Strict(s) ==
    IF s > 80 THEN "text-red-400"
    ELSE IF s > 60 THEN "text-orange-400"
    ELSE IF s > 40 THEN "text-yellow-400"
    ELSE "text-green-400"

\* CrossCheckView.jsx 290-295 (PriorityBatchView)
PriorityBatchView_getScoreColor(s) ==
    IF s >= 80 THEN "text-red-400"
    ELSE IF s >= 60 THEN "text-orange-400"
    ELSE IF s >= 40 THEN "text-yellow-400"
    ELSE "text-green-400"

HistoryDetail_getScoreColor_MatchScale(s) ==
    IF s >= 80 THEN "text-green-400"
    ELSE IF s >= 60 THEN "text-yellow-400"
    ELSE IF s >= 40 THEN "text-orange-400"
    ELSE "text-red-400"

HistoryDetail_getScoreColor_Strict(s) ==
    IF s > 80 THEN "text-red-400"
    ELSE IF s > 60 THEN "text-orange-400"
    ELSE IF s > 40 THEN "text-yellow-400"
    ELSE "text-green-400"

\* HistoryDetail.jsx 80-85
HistoryDetail_getScoreColor(s) ==
    IF s >= 80 THEN "text-red-400"
    ELSE IF s >= 60 THEN "text-orange-400"
    ELSE IF s >= 40 THEN "text-yellow-400"
    ELSE "text-green-400"

\* The colour a Tailwind text class shows.
ColorOfClass(c) ==
    CASE c = "text-red-400" -> "red"
      [] c = "text-orange-400" -> "orange"
      [] c = "text-yellow-400" -> "yellow"
      [] c = "text-green-400" -> "green"
      [] OTHER -> "none"

TierIdle ==
    /\ score = 0
    /\ tier = NoTier
    /\ batchScoreColor = NoColor
    /\ detailScoreColor = NoColor

TierInit ==
    /\ score \in 0..100
    /\ tier = NoTier
    /\ batchScoreColor = NoColor
    /\ detailScoreColor = NoColor

ScoreMargin == 10

\* Scores on both sides of [0,100] as well.
TierRangeInit ==
    /\ score \in (0 - ScoreMargin)..(100 + ScoreMargin)
    /\ tier = NoTier
    /\ batchScoreColor = NoColor
    /\ detailScoreColor = NoColor

\* One rendering of a ranking row: the service's tier for the score and the
\* colour each priority view gives the same score.
ClassifyScore ==
    /\ tier = NoTier
    /\ tier' = classifyTier(score)
    /\ batchScoreColor' = PriorityBatchView_getScoreColor(score)
    /\ detailScoreColor' = HistoryDetail_getScoreColor(score)
    /\ UNCHANGED <<score, severityVars, aggregateVars, batchVars, laterVars>>

-----------------------------------------------------------------------------
(* Severity classification                                                 *)

\* Characters are one-letter strings; a label is a sequence of them.
LowerLetters ==
    {"a", "b", "d", "e", "f", "g", "h", "i", "j", "l", "m", "o", "p", "s", "t",
     "u", "w", "x"}

UpperOf(c) ==
    CASE c = "a" -> "A" [] c = "b" -> "B" [] c = "d" -> "D" [] c = "e" -> "E"
      [] c = "g" -> "G" [] c = "h" -> "H" [] c = "i" -> "I" [] c = "j" -> "J"
      [] c = "l" -> "L" [] c = "m" -> "M" [] c = "o" -> "O" [] c = "t" -> "T"
      [] c = "u" -> "U" [] c = "w" -> "W" [] c = "f" -> "F" [] c = "p" -> "P"
      [] c = "s" -> "S" [] c = "x" -> "X" [] OTHER -> c

UpperLetters == {UpperOf(c) : c \in LowerLetters}

\* String.prototype.toLowerCase on one character.
LowerOfChar(c) ==
    IF c \in UpperLetters THEN CHOOSE l \in LowerLetters : UpperOf(l) = c ELSE c

toLowerCase_Identity(s) == s

\* String.prototype.toLowerCase
toLowerCase(s) == [i \in 1..Len(s) |-> LowerOfChar(s[i])]

W_high == <<"h", "i", "g", "h">>
W_alta == <<"a", "l", "t", "a">>
W_medium == <<"m", "e", "d", "i", "u", "m">>
W_media == <<"m", "e", "d", "i", "a">>
W_low == <<"l", "o", "w">>
W_baja == <<"b", "a", "j", "a">>

\* item.severity: a string, or absent (undefined / null).
Absent == [present |-> FALSE, text |-> <<>>]
Label(s) == [present |-> TRUE, text |-> s]

StylesHigh ==
    [bg |-> "bg-red-600/20", border |-> "border-red-600/30",
     badge |-> "bg-red-600 text-white", icon |-> "AlertTriangle",
     iconColor |-> "text-red-400"]
StylesMedium ==
    [bg |-> "bg-yellow-600/20", border |-> "border-yellow-600/30",
     badge |-> "bg-yellow-600 text-white", icon |-> "AlertTriangle",
     iconColor |-> "text-yellow-400"]
StylesLow ==
    [bg |-> "bg-blue-600/20", border |-> "border-blue-600/30",
     badge |-> "bg-blue-600 text-white", icon |-> "Info",
     iconColor |-> "text-blue-400"]
\* The render aborted with a TypeError (a method call on undefined).
StylesTypeError ==
    [bg |-> "TypeError", border |-> "TypeError", badge |-> "TypeError",
     icon |-> "TypeError", iconColor |-> "TypeError"]
NoStyles ==
    [bg |-> "unset", border |-> "unset", badge |-> "unset",
     icon |-> "unset", iconColor |-> "unset"]

\* severity?.toLowerCase() || ''
normalizedSeverity(sev) ==
    IF ~sev.present THEN <<>>
    ELSE IF toLowerCase(sev.text) = <<>> THEN <<>>
    ELSE toLowerCase(sev.text)

StylesFor(n) ==
    IF n = W_high \/ n = W_alta THEN StylesHigh
    ELSE IF n = W_medium \/ n = W_media THEN StylesMedium
    ELSE StylesLow

ResultsDashboard_getSeverityStyles_NoGuard(sev) ==
    IF ~sev.present THEN StylesTypeError
    ELSE StylesFor(toLowerCase(sev.text))

\* ResultsDashboard.jsx 22-49
ResultsDashboard_getSeverityStyles(sev) == StylesFor(normalizedSeverity(sev))

HistoryDetail_getSeverityStyles_EnglishOnly(sev) ==
    LET n == normalizedSeverity(sev)
    IN IF n = W_high THEN StylesHigh
       ELSE IF n = W_medium THEN StylesMedium
       ELSE StylesLow

\* HistoryDetail.jsx 51-78
HistoryDetail_getSeverityStyles(sev) == StylesFor(normalizedSeverity(sev))

\* The canonical class (spec.md 4.2) a style set stands for.
SeverityClass(styles) ==
    CASE styles = StylesHigh -> "high"
      [] styles = StylesMedium -> "medium"
      [] styles = StylesLow -> "low"
      [] OTHER -> "error"

\* Every spelling of word w that differs from it in letter case only.
RECURSIVE Casings(_)
Casings(w) ==
    IF w = <<>> THEN {<<>>}
    ELSE {<<c>> \o r : c \in {Head(w), UpperOf(Head(w))}, r \in Casings(Tail(w))}

MaxOtherLen == 2

\* Labels that are no synonym: short strings, and near misses of the synonyms.
OtherLabels ==
    UNION {[1..n -> {"h", "A", "m", " "}] : n \in 0..MaxOtherLen}
    \cup Casings(W_low) \cup Casings(W_baja)
    \cup {W_high \o <<" ">>, <<" ">> \o W_alta, W_medium \o <<"s">>,
          SubSeq(W_media, 1, 4), W_high \o W_high}

Labels ==
    Casings(W_high) \cup Casings(W_alta) \cup Casings(W_medium)
    \cup Casings(W_media) \cup OtherLabels

SeverityIdle ==
    /\ severity = Absent
    /\ dashboardStyles = NoStyles
    /\ detailStyles = NoStyles

SeverityInit ==
    /\ severity \in {Label(s) : s \in Labels} \cup {Absent}
    /\ dashboardStyles = NoStyles
    /\ detailStyles = NoStyles

\* One rendering of a discrepancy card in each view.
ClassifySeverity ==
    /\ dashboardStyles = NoStyles
    /\ dashboardStyles' = ResultsDashboard_getSeverityStyles(severity)
    /\ detailStyles' = HistoryDetail_getSeverityStyles(severity)
    /\ UNCHANGED <<severity, tierVars, aggregateVars, batchVars, laterVars>>

-----------------------------------------------------------------------------
(* Score aggregation: POST /prioritize and the ProjectScorer result panel  *)

\* ProjectScorer.jsx 12-18: the keys of the request payload.
FactorKeys ==
    <<"roi", "urgency", "risk", "strategic_alignment", "resource_availability">>

KeySet == {FactorKeys[i] : i \in DOMAIN FactorKeys}

\* Weights are kept in hundredths, so 0.3 is 30 and -0.15 is -15.
\* spec.md 8: the example table, in which risk penalizes.
ExampleWeights ==
    [roi |-> 30, urgency |-> 25, risk |-> -15, strategic_alignment |-> 20,
     resource_availability |-> 10]
\* A table of positive weights that sum to 1.0.
PositiveWeights ==
    [roi |-> 30, urgency |-> 25, risk |-> 15, strategic_alignment |-> 20,
     resource_availability |-> 10]
\* A table that sums to 1.0 with a negative risk weight.
SteepWeights ==
    [roi |-> 50, urgency |-> 40, risk |-> -20, strategic_alignment |-> 20,
     resource_availability |-> 10]

WeightTables == {ExampleWeights, PositiveWeights, SteepWeights}

\* spec.md 8: the example factor set.
ExampleFactors ==
    [roi |-> 90, urgency |-> 80, risk |-> 20, strategic_alignment |-> 70,
     resource_availability |-> 60]

\* spec.md 3: every factor value lies in [0,100].
ValidFactors(f) == \A k \in KeySet : f[k] \in 0..100

\* spec.md 4.3: round half up, here of n / 100.
roundHundredths(n) == (n + 50) \div 100

clamp_None(x, lo, hi) == x

clamp(x, lo, hi) == IF x < lo THEN lo ELSE IF x > hi THEN hi ELSE x

RECURSIVE SumContributions(_, _)
SumContributions(breakdown, i) ==
    IF i > Len(FactorKeys) THEN 0
    ELSE breakdown[FactorKeys[i]].contribution + SumContributions(breakdown, i + 1)

\* spec.md 4.3: the recommendation is chosen by tier.
RecommendationFor(t) ==
    CASE t = "Critical" -> "recommendation-critical"
      [] t = "High" -> "recommendation-high"
      [] t = "Medium" -> "recommendation-medium"
      [] OTHER -> "recommendation-low"

NoResult == [kind |-> "null"]

\* spec.md 4.3: contribution_i = round(value_i * weight_i),
\* score = clamp(sum(contribution_i), 0, 100); out-of-range input is rejected.
aggregate(f, w) ==
    IF ~ValidFactors(f)
    THEN [kind |-> "RangeError", detail |-> "factor value out of range"]
    ELSE
      LET breakdown ==
              [k \in KeySet |->
                  [value |-> f[k], contribution |-> roundHundredths(f[k] * w[k])]]
          total == clamp(SumContributions(breakdown, 1), 0, 100)
          t == classifyTier(total)
      IN [kind |-> "PriorityResult", score |-> total, tier |-> t.name,
          tier_color |-> t.color, breakdown |-> breakdown,
          recommendation |-> RecommendationFor(t.name)]

\* ProjectScorer.jsx 192: the score shown in the result panel.
ProjectScorer_scoreShown(result) == result.score

ProjectScorer_breakdownRows_ValueAsText(result) ==
    [k \in DOMAIN result.breakdown |->
        [width |-> result.breakdown[k].value,
         contribution |-> result.breakdown[k].value]]

\* ProjectScorer.jsx 205-220: one breakdown row per entry of result.breakdown,
\* the bar as wide as the value, the text the contribution.
ProjectScorer_breakdownRows(result) ==
    [k \in DOMAIN result.breakdown |->
        [width |-> result.breakdown[k].value,
         contribution |-> result.breakdown[k].contribution]]

FactorStep == 25

FactorGrid == {v \in 0..100 : v % FactorStep = 0}

\* Payloads: the grid, the example of spec.md 8, and two that are out of range.
FactorSets ==
    [KeySet -> FactorGrid] \cup {ExampleFactors}
    \cup {[ExampleFactors EXCEPT !.roi = 101], [ExampleFactors EXCEPT !.risk = -1]}

AggregateIdle ==
    /\ weights = ExampleWeights
    /\ factors = ExampleFactors
    /\ priorityResult = NoResult

AggregateInit ==
    /\ weights \in WeightTables
    /\ factors \in FactorSets
    /\ priorityResult = NoResult

\* The service answers POST /prioritize for a valid payload.
Prioritize ==
    /\ priorityResult = NoResult
    /\ ValidFactors(factors)
    /\ priorityResult' = aggregate(factors, weights)
    /\ UNCHANGED <<weights, factors, tierVars, severityVars, batchVars, laterVars>>

\* The service rejects a payload with a value outside [0,100].
PrioritizeRejected ==
    /\ priorityResult = NoResult
    /\ ~ValidFactors(factors)
    /\ priorityResult' = aggregate(factors, weights)
    /\ UNCHANGED <<weights, factors, tierVars, severityVars, batchVars, laterVars>>

-----------------------------------------------------------------------------
(* Batch scoring: POST /prioritize/batch and PriorityBatchView             *)

MaxProjects == 3

\* The rows a spreadsheet can hold: under ExampleWeights the first scores 55
\* and the second 82; the third has a risk outside [0,100].
RowChoices ==
    { [name |-> "Alpha",
       factors |-> [roi |-> 100, urgency |-> 100, risk |-> 0,
                    strategic_alignment |-> 0, resource_availability |-> 0]],
      [name |-> "Beta",
       factors |-> [roi |-> 100, urgency |-> 100, risk |-> 20,
                    strategic_alignment |-> 100, resource_availability |-> 100]],
      [name |-> "Broken",
       factors |-> [roi |-> 50, urgency |-> 50, risk |-> 150,
                    strategic_alignment |-> 50, resource_availability |-> 50]] }

\* A spreadsheet: its rows in order; a project's id is its row number.
Sheets ==
    UNION { { [i \in 1..n |-> [id |-> i, name |-> rows[i].name,
                               factors |-> rows[i].factors]] :
              rows \in [1..n -> RowChoices] } : n \in 0..MaxProjects }

\* Insert x behind every entry whose score is at least x.score.
insertByScore(sorted, x) ==
    LET before == {i \in 1..Len(sorted) : sorted[i].score >= x.score}
        n == Cardinality(before)
    IN SubSeq(sorted, 1, n) \o <<x>> \o SubSeq(sorted, n + 1, Len(sorted))

\* spec.md 4.5: score every project with 4.3; the list is kept sorted
\* descending by score while it is collected, ties in input order.
RECURSIVE collect(_, _, _, _)
collect(projects, w, i, sorted) ==
    IF i > Len(projects) THEN sorted
    ELSE LET p == projects[i]
             r == aggregate(p.factors, w)
         IN collect(projects, w, i + 1,
                insertByScore(sorted,
                    [id |-> p.id, name |-> p.name, score |-> r.score,
                     tier |-> r.tier, tier_color |-> r.tier_color,
                     breakdown |-> r.breakdown]))

assemble_SkipInvalid(projects, w) ==
    LET valid == SelectSeq(projects, LAMBDA p : ValidFactors(p.factors))
        ranked == collect(valid, w, 1, <<>>)
    IN [kind |-> "BatchResult", total_projects |-> Len(ranked), results |-> ranked]

\* spec.md 4.5: fails if any project's factor set is invalid, else the ranked
\* list and its length.
assemble(projects, w) ==
    IF \E i \in DOMAIN projects : ~ValidFactors(projects[i].factors)
    THEN [kind |-> "ValidationError", detail |-> "invalid factor set"]
    ELSE LET ranked == collect(projects, w, 1, <<>>)
         IN [kind |-> "BatchResult", total_projects |-> Len(ranked),
             results |-> ranked]

NoFile == [kind |-> "null"]
NoRequest == [kind |-> "null"]
NoError == "null"

\* A File: its name split at the dots, and the projects it holds.
File(segments, projects) ==
    [kind |-> "File", name |-> segments, projects |-> projects]

\* The files the user can drop or select: the spreadsheet saved as .xlsx and
\* as .XLS, a PDF, and a file whose name has no dot.
UserFiles ==
    { File(<< <<"p">>, <<"x", "l", "s", "x">> >>, sheet),
      File(<< <<"p">>, <<"X", "L", "S">> >>, sheet),
      File(<< <<"p">>, <<"p", "d", "f">> >>, <<>>),
      File(<< <<"x", "l", "s", "x">> >>, sheet),
      File(<< <<"p", "d", "f">>, <<"x", "l", "s", "x">>, <<"p", "p", "t", "x">> >>, <<>>) }

\* selectedFile.name.split('.').pop().toLowerCase()
extensionOf(f) == toLowerCase(f.name[Len(f.name)])

Ext_xlsx == <<"x", "l", "s", "x">>
Ext_xls == <<"x", "l", "s">>

UnsupportedMessage ==
    "Tipo de archivo no soportado. Por favor sube un archivo Excel valido (.xlsx)"
ProcessFallback == "Fallo el procesamiento. Por favor intenta de nuevo."

BatchIdle ==
    /\ sheet = <<>>
    /\ file = NoFile
    /\ isLoading = FALSE
    /\ error = NoError
    /\ results = NoResult
    /\ batchRequest = NoRequest

BatchInit ==
    /\ sheet \in Sheets
    /\ file = NoFile
    /\ isLoading = FALSE
    /\ error = NoError
    /\ results = NoResult
    /\ batchRequest = NoRequest

BatchOthers == <<tierVars, severityVars, factors, priorityResult, laterVars>>

\* CrossCheckView.jsx 246-267: handleDrop / handleFileSelect with a file whose
\* extension is xlsx or xls.
validateAndSetFile_Accept(f) ==
    /\ extensionOf(f) = Ext_xlsx \/ extensionOf(f) = Ext_xls
    /\ file' = f
    /\ error' = NoError
    /\ UNCHANGED <<sheet, weights, isLoading, results, batchRequest, BatchOthers>>

\* CrossCheckView.jsx 246-267: the same handlers with any other file.
validateAndSetFile_Reject(f) ==
    /\ ~(extensionOf(f) = Ext_xlsx \/ extensionOf(f) = Ext_xls)
    /\ error' = UnsupportedMessage
    /\ UNCHANGED <<sheet, weights, file, isLoading, results, batchRequest, BatchOthers>>

\* CrossCheckView.jsx 337-342: the "Eliminar" button, shown while a file is set.
removeBatchFile ==
    /\ file # NoFile
    /\ file' = NoFile
    /\ UNCHANGED <<sheet, weights, isLoading, error, results, batchRequest, BatchOthers>>

\* CrossCheckView.jsx 269-281, 368-371: the button is disabled without a file
\* and while loading; the request carries the file.
handleProcess ==
    /\ file # NoFile
    /\ ~isLoading
    /\ isLoading' = TRUE
    /\ error' = NoError
    /\ batchRequest' = [kind |-> "POST /prioritize/batch", file |-> file]
    /\ UNCHANGED <<sheet, weights, file, results, BatchOthers>>

\* CrossCheckView.jsx 282, 285-287: the service answers with a BatchResult.
handleProcess_Success ==
    /\ batchRequest # NoRequest
    /\ LET response == assemble(batchRequest.file.projects, weights)
       IN /\ response.kind = "BatchResult"
          /\ results' = response
    /\ isLoading' = FALSE
    /\ batchRequest' = NoRequest
    /\ UNCHANGED <<sheet, weights, file, error, BatchOthers>>

\* CrossCheckView.jsx 283-287: the service answers with an error that carries
\* a detail string.
handleProcess_Detail ==
    /\ batchRequest # NoRequest
    /\ LET response == assemble(batchRequest.file.projects, weights)
       IN /\ response.kind # "BatchResult"
          /\ error' = response.detail
    /\ isLoading' = FALSE
    /\ batchRequest' = NoRequest
    /\ UNCHANGED <<sheet, weights, file, results, BatchOthers>>

\* CrossCheckView.jsx 283-287: no response at all (err.response is undefined).
handleProcess_NoResponse ==
    /\ batchRequest # NoRequest
    /\ error' = ProcessFallback
    /\ isLoading' = FALSE
    /\ batchRequest' = NoRequest
    /\ UNCHANGED <<sheet, weights, file, results, BatchOthers>>

PriorityBatchView_rows_Reversed(res) ==
    [i \in 1..Len(res.results) |->
        LET p == res.results[Len(res.results) + 1 - i]
        IN [rank |-> i, id |-> p.id, name |-> p.name,
            roi |-> p.breakdown["roi"].value,
            urgency |-> p.breakdown["urgency"].value,
            score |-> p.score,
            scoreColor |-> PriorityBatchView_getScoreColor(p.score),
            tier |-> p.tier, tierColor |-> p.tier_color]]

PriorityDetail_rows_FirstTwo(data) ==
    [i \in 1..(IF Len(data.results) > 2 THEN 2 ELSE Len(data.results)) |->
        [rank |-> i, id |-> data.results[i].id, name |-> data.results[i].name,
         score |-> data.results[i].score,
         scoreColor |-> HistoryDetail_getScoreColor(data.results[i].score),
         tier |-> data.results[i].tier, tierColor |-> data.results[i].tier_color]]

\* CrossCheckView.jsx 409-426: one table row per entry of results.results, in
\* the order received, numbered from 1.  The factor values are integers, so
\* value.toFixed(0) prints them unchanged.
PriorityBatchView_rows(res) ==
    [i \in 1..Len(res.results) |->
        [rank |-> i, id |-> res.results[i].id, name |-> res.results[i].name,
         roi |-> res.results[i].breakdown["roi"].value,
         urgency |-> res.results[i].breakdown["urgency"].value,
         score |-> res.results[i].score,
         scoreColor |-> PriorityBatchView_getScoreColor(res.results[i].score),
         tier |-> res.results[i].tier, tierColor |-> res.results[i].tier_color]]

\* CrossCheckView.jsx 387: "{results.total_projects} proyectos analizados"
PriorityBatchView_countShown(res) == res.total_projects

\* HistoryDetail.jsx 314-328: PriorityDetail's rows for data.results.
PriorityDetail_rows(data) ==
    [i \in 1..Len(data.results) |->
        [rank |-> i, id |-> data.results[i].id, name |-> data.results[i].name,
         score |-> data.results[i].score,
         scoreColor |-> HistoryDetail_getScoreColor(data.results[i].score),
         tier |-> data.results[i].tier, tierColor |-> data.results[i].tier_color]]

\* HistoryDetail.jsx 292: "{data.total_projects} proyectos"
PriorityDetail_countShown(data) == data.total_projects

-----------------------------------------------------------------------------
(* Discrepancy records: validation (spec.md 4.4) and the discrepancy cards *)

\* String.prototype.trim on a sequence of characters; " " is the whitespace.
RECURSIVE trimStart(_)
trimStart(s) ==
    IF s # <<>> /\ Head(s) = " " THEN trimStart(Tail(s)) ELSE s

RECURSIVE trimEnd(_)
trimEnd(s) ==
    IF s # <<>> /\ s[Len(s)] = " " THEN trimEnd(SubSeq(s, 1, Len(s) - 1)) ELSE s

trim(s) == trimEnd(trimStart(s))

\* A field of a record, trimmed when it is there.
trimmed(field) == IF field.present THEN Label(trim(field.text)) ELSE Absent

\* spec.md 4.2: the canonical class of a severity label, as its lower-case word.
classifySeverity(label) ==
    LET n == toLowerCase(label)
    IN IF n = W_high \/ n = W_alta THEN W_high
       ELSE IF n = W_medium \/ n = W_media THEN W_medium
       ELSE W_low

\* spec.md 4.4: the normalized copy: severity run through 4.2, strings trimmed.
normalizedCopy(raw) ==
    [severity |-> IF raw.severity.present
                  THEN Label(classifySeverity(raw.severity.text)) ELSE Absent,
     type |-> trimmed(raw.type),
     description |-> trimmed(raw.description),
     excel_value |-> trimmed(raw.excel_value),
     pptx_value |-> trimmed(raw.pptx_value),
     recommendation |-> trimmed(raw.recommendation)]

ValidationError(field) == [kind |-> "ValidationError", field |-> field]

\* The checks of spec.md 4.4 on a record r, naming the first field that fails.
checked(r, result) ==
    IF ~r.severity.present THEN ValidationError("severity")
    ELSE IF ~r.type.present THEN ValidationError("type")
    ELSE IF ~r.description.present \/ r.description.text = <<>>
         THEN ValidationError("description")
    ELSE IF r.excel_value.present /\ r.excel_value.text = <<>>
         THEN ValidationError("excel_value")
    ELSE IF r.pptx_value.present /\ r.pptx_value.text = <<>>
         THEN ValidationError("pptx_value")
    ELSE [kind |-> "Discrepancy", record |-> result]

validate_CheckRaw(raw) == checked(raw, normalizedCopy(raw))

\* spec.md 4.4: validate(raw).  The result is a Discrepancy, which has a
\* non-empty description and non-empty paired values, so the checks are those
\* of the normalized copy.
validate(raw) == checked(normalizedCopy(raw), normalizedCopy(raw))

\* spec.md 4.4 "Side effect: none": the argument as it is after validate(raw).
validate_argumentAfter(raw) == raw

NotRendered == <<[kind |-> "not rendered"]>>

\* {field && ...}: what JSX shows for an optional field.
shownIfTruthy(field) ==
    IF field.present /\ field.text # <<>> THEN field ELSE Absent

ResultsDashboard_cards_Reversed(list) ==
    [i \in 1..Len(list) |->
        LET item == list[Len(list) + 1 - i]
        IN [kind |-> "card", index |-> i - 1,
            styles |-> ResultsDashboard_getSeverityStyles(item.severity),
            severity |-> item.severity, type |-> item.type,
            description |-> item.description,
            excel_value |-> shownIfTruthy(item.excel_value),
            pptx_value |-> shownIfTruthy(item.pptx_value),
            recommendation |-> shownIfTruthy(item.recommendation)]]

\* ResultsDashboard.jsx 131-182: one card per entry of discrepancies.
ResultsDashboard_cards(list) ==
    [i \in 1..Len(list) |->
        [kind |-> "card", index |-> i - 1,
         styles |-> ResultsDashboard_getSeverityStyles(list[i].severity),
         severity |-> list[i].severity, type |-> list[i].type,
         description |-> list[i].description,
         excel_value |-> shownIfTruthy(list[i].excel_value),
         pptx_value |-> shownIfTruthy(list[i].pptx_value),
         recommendation |-> shownIfTruthy(list[i].recommendation)]]

\* HistoryDetail.jsx 206-256: one card per entry of data.discrepancies.
CrossCheckDetail_cards(list) ==
    [i \in 1..Len(list) |->
        [kind |-> "card", index |-> i - 1,
         styles |-> HistoryDetail_getSeverityStyles(list[i].severity),
         severity |-> list[i].severity, type |-> list[i].type,
         description |-> list[i].description,
         excel_value |-> shownIfTruthy(list[i].excel_value),
         pptx_value |-> shownIfTruthy(list[i].pptx_value),
         recommendation |-> shownIfTruthy(list[i].recommendation)]]

\* ResultsDashboard.jsx 117: {discrepancies.length} problema(s)
ResultsDashboard_countShown(list) == Len(list)

\* HistoryDetail.jsx 193: {data.discrepancies?.length || 0} problema(s)
CrossCheckDetail_countShown(list) == IF Len(list) # 0 THEN Len(list) ELSE 0

RawFields(sev, ty, desc, ex, pp, rec) ==
    [severity |-> sev, type |-> ty, description |-> desc, excel_value |-> ex,
     pptx_value |-> pp, recommendation |-> rec]

T_budget == <<"b", "u", "d", "g", "e", "t">>
T_date == <<"d", "a", "t", "e">>

\* Every combination of a few values per field, one record at a time.
RawRecords ==
    {RawFields(sev, ty, desc, ex, pp, rec) :
        sev \in {Absent, Label(<<"A", "l", "t", "a">>), Label(W_medium),
                 Label(<<"i", "n", "f", "o">>)},
        ty \in {Absent, Label(T_budget)},
        desc \in {Absent, Label(<<>>), Label(<<" ">>), Label(<<" ", "x", " ">>),
                  Label(<<"x">>)},
        ex \in {Absent, Label(<<>>), Label(<<" ">>), Label(<<"a", " ">>)},
        pp \in {Absent, Label(<<" ", " ">>), Label(<<"b">>)},
        rec \in {Absent, Label(<<" ", "o">>)}}

\* Records that lists are built from.
ListRecords ==
    {RawFields(Label(<<"H", "I", "G", "H">>), Label(T_budget), Label(<<"x">>),
               Label(<<"a">>), Label(<<"b">>), Absent),
     RawFields(Label(W_media), Label(T_date), Label(<<"x", " ">>),
               Absent, Absent, Label(<<"o">>)),
     RawFields(Label(W_low), Label(T_budget), Label(<<"x">>),
               Absent, Label(<<"b">>), Absent),
     RawFields(Absent, Absent, Absent, Absent, Absent, Absent),
     RawFields(Absent, Label(T_date), Label(<<"x">>), Absent, Absent, Absent),
     RawFields(Label(W_high), Label(T_date), Label(<<" ">>),
               Label(<<"a">>), Absent, Absent)}

MaxDiscrepancies == 2

DiscrepancyLists ==
    UNION {[1..n -> ListRecords] : n \in 0..MaxDiscrepancies}
    \cup {<<r>> : r \in RawRecords}

DiscrepancyIdle ==
    /\ discrepancies = <<>>
    /\ validation = <<>>
    /\ argumentsAfter = <<>>
    /\ dashboardCards = NotRendered
    /\ detailCards = NotRendered
    /\ countsShown = <<>>

DiscrepancyInit ==
    /\ discrepancies \in DiscrepancyLists
    /\ validation = <<>>
    /\ argumentsAfter = <<>>
    /\ dashboardCards = NotRendered
    /\ detailCards = NotRendered
    /\ countsShown = <<>>

DiscrepancyOthers == <<coreVars, scorerVars, configVars, historyVars, crossVars>>

\* The validation boundary of spec.md 4.4 applied to every received item.
ValidateDiscrepancies ==
    /\ validation = <<>>
    /\ discrepancies # <<>>
    /\ validation' = [i \in 1..Len(discrepancies) |-> validate(discrepancies[i])]
    /\ argumentsAfter' =
          [i \in 1..Len(discrepancies) |-> validate_argumentAfter(discrepancies[i])]
    /\ UNCHANGED <<discrepancies, dashboardCards, detailCards, countsShown,
                   DiscrepancyOthers>>

\* One rendering of the received list by ResultsDashboard and by the
\* CrossCheckDetail of the history view.
RenderDiscrepancies ==
    /\ dashboardCards = NotRendered
    /\ dashboardCards' = ResultsDashboard_cards(discrepancies)
    /\ detailCards' = CrossCheckDetail_cards(discrepancies)
    /\ countsShown' =
          [dashboard |-> ResultsDashboard_countShown(discrepancies),
           detail |-> CrossCheckDetail_countShown(discrepancies)]
    /\ UNCHANGED <<discrepancies, validation, argumentsAfter, DiscrepancyOthers>>

-----------------------------------------------------------------------------
(* ProjectScorer: the sliders and the Calculate button                     *)

\* ProjectScorer.jsx 12-18: useState({roi: 50, ...})
InitialFormData == [k \in KeySet |-> 50]

\* ProjectScorer.jsx 46-82: the key of each entry of sliderConfig.
SliderKeys ==
    {"roi", "urgency", "risk", "strategic_alignment", "resource_availability"}

DigitValue(c) ==
    CASE c = "0" -> 0 [] c = "1" -> 1 [] c = "2" -> 2 [] c = "3" -> 3
      [] c = "4" -> 4 [] c = "5" -> 5 [] c = "6" -> 6 [] c = "7" -> 7
      [] c = "8" -> 8 [] c = "9" -> 9

RECURSIVE DigitsValue(_, _)
DigitsValue(s, acc) ==
    IF s = <<>> THEN acc ELSE DigitsValue(Tail(s), 10 * acc + DigitValue(Head(s)))

\* Number(value) for the decimal text of an integer.
Number(text) ==
    IF Head(text) = "-" THEN 0 - DigitsValue(Tail(text), 0)
    ELSE DigitsValue(text, 0)

\* e.target.value as handed to handleSliderChange: a value on the track of
\* the range input, and values beyond both ends of it.
SliderTexts == {<<"2", "5">>, <<"1", "5", "0">>, <<"-", "1">>}

handleSliderChange_formData_FieldOnly(prev, field, value) ==
    [k \in {field} |-> Number(value)]

\* ProjectScorer.jsx 25-28: ({...prev, [field]: Number(value)})
handleSliderChange_formData(prev, field, value) ==
    [k \in DOMAIN prev \cup {field} |->
        IF k = field THEN Number(value) ELSE prev[k]]

FailedToCalculate == "Failed to calculate priority score."

MaxGestures == 3

ScorerIdle ==
    /\ formData = InitialFormData
    /\ scorerResult = NoResult
    /\ scorerLoading = FALSE
    /\ scorerError = NoError
    /\ scoreRequest = NoRequest
    /\ gestures = 0

\* ProjectScorer.jsx 12-22: the state after the first render.
ScorerInit == ScorerIdle

ScorerOthers ==
    <<tierVars, severityVars, factors, priorityResult, sheet, file, isLoading,
      error, results, batchRequest, discrepancyVars, configVars, historyVars,
      crossVars>>

\* ProjectScorer.jsx 24-30
handleSliderChange(field, value) ==
    /\ gestures < MaxGestures
    /\ gestures' = gestures + 1
    /\ formData' = handleSliderChange_formData(formData, field, value)
    /\ scorerResult' = NoResult
    /\ UNCHANGED <<weights, scorerLoading, scorerError, scoreRequest, ScorerOthers>>

\* ProjectScorer.jsx 32-37: up to the await.  The button is disabled while
\* isLoading (line 151).
handleCalculate ==
    /\ ~scorerLoading
    /\ gestures < MaxGestures
    /\ gestures' = gestures + 1
    /\ scorerLoading' = TRUE
    /\ scorerError' = NoError
    /\ scoreRequest' = [kind |-> "POST /prioritize", payload |-> formData]
    /\ UNCHANGED <<weights, formData, scorerResult, ScorerOthers>>

\* ProjectScorer.jsx 37-38, 41-43: the response is a PriorityResult.
handleCalculate_Success ==
    /\ scoreRequest # NoRequest
    /\ aggregate(scoreRequest.payload, weights).kind = "PriorityResult"
    /\ scorerResult' = aggregate(scoreRequest.payload, weights)
    /\ scorerLoading' = FALSE
    /\ scoreRequest' = NoRequest
    /\ UNCHANGED <<weights, formData, scorerError, gestures, ScorerOthers>>

\* ProjectScorer.jsx 39-43: the service refused the payload, with a detail.
handleCalculate_Detail ==
    /\ scoreRequest # NoRequest
    /\ aggregate(scoreRequest.payload, weights).kind # "PriorityResult"
    /\ scorerError' = aggregate(scoreRequest.payload, weights).detail
    /\ scorerLoading' = FALSE
    /\ scoreRequest' = NoRequest
    /\ UNCHANGED <<weights, formData, scorerResult, gestures, ScorerOthers>>

\* ProjectScorer.jsx 39-43: no response at all; err.response is undefined.
handleCalculate_NoResponse ==
    /\ scoreRequest # NoRequest
    /\ scorerError' = FailedToCalculate
    /\ scorerLoading' = FALSE
    /\ scoreRequest' = NoRequest
    /\ UNCHANGED <<weights, formData, scorerResult, gestures, ScorerOthers>>

-----------------------------------------------------------------------------
(* Service configuration: loaded and checked once (spec.md 4.1, 4.3, 7)    *)

\* Tier lower bounds, high to low: the table of 4.1 and malformed ones (not
\* decreasing, repeated, not reaching 0, above 100, empty).
ThresholdTables ==
    {<<80, 60, 40, 0>>, <<50, 0>>, <<80, 40, 60, 0>>, <<80, 60, 60, 0>>,
     <<80, 60, 40, 10>>, <<120, 60, 40, 0>>, <<>>}

\* spec.md 4.3: the total the weights (in hundredths) must add up to.
WeightTotal == 100

\* Weight tables: two that add up to the total, one that does not, one with a
\* factor key missing.
ConfiguredWeights ==
    {PositiveWeights, SteepWeights,
     [PositiveWeights EXCEPT !["roi"] = 20],
     [k \in KeySet \ {"risk"} |-> PositiveWeights[k]]}

\* spec.md 4.1: thresholds are monotonic and leave no score of [0,100] out.
ValidThresholds(t) ==
    /\ t # <<>>
    /\ \A i \in 1..Len(t) : t[i] \in 0..100
    /\ \A i \in 1..(Len(t) - 1) : t[i] > t[i + 1]
    /\ t[Len(t)] = 0

RECURSIVE SumWeights(_, _)
SumWeights(w, keys) ==
    IF keys = {} THEN 0
    ELSE LET k == CHOOSE x \in keys : TRUE
         IN w[k] + SumWeights(w, keys \ {k})

\* spec.md 4.3: every factor key has a weight and the weights add up.
ValidWeights(w) ==
    /\ DOMAIN w = KeySet
    /\ SumWeights(w, DOMAIN w) = WeightTotal

loadConfiguration_Deferred(c) == "initialized"

\* spec.md 4.1, 4.3, 7: the configuration is checked when it is loaded; a
\* malformed one is a fatal ConfigurationError.
loadConfiguration(c) ==
    IF ValidThresholds(c.thresholds) /\ ValidWeights(c.weights)
    THEN "initialized" ELSE "ConfigurationError"

ServiceCalls == {"classifyTier", "aggregate", "assemble"}

MaxCalls == 2

ConfigIdle ==
    /\ config = [thresholds |-> <<80, 60, 40, 0>>, weights |-> PositiveWeights]
    /\ moduleState = "loading"
    /\ served = <<>>

ConfigInit ==
    /\ config \in [thresholds : ThresholdTables, weights : ConfiguredWeights]
    /\ moduleState = "loading"
    /\ served = <<>>

ConfigOthers == <<coreVars, discrepancyVars, scorerVars, historyVars, crossVars>>

\* spec.md 7: startup.
LoadModule ==
    /\ moduleState = "loading"
    /\ moduleState' = loadConfiguration(config)
    /\ UNCHANGED <<config, served, ConfigOthers>>

\* A call of 4.1, 4.3 or 4.5 is answered by the initialized module only.
ServeCall(name) ==
    /\ moduleState = "initialized"
    /\ Len(served) < MaxCalls
    /\ served' = Append(served, name)
    /\ UNCHANGED <<config, moduleState, ConfigOthers>>

-----------------------------------------------------------------------------
(* History view: the two record lists and the detail of one record         *)

NoSelection == [kind |-> "null"]
NoData == [kind |-> "null"]

HistoryLoadError ==
    "Error al cargar historial. Asegurate de que el backend este corriendo."
DetailFallback == "Error al cargar los detalles"
ServiceDetail == "detail sent by the service"

\* The records the service holds; id 1 exists in both tables, and one table
\* begins its ids at 0.
StoredHistories ==
    [crosscheck : {<<>>, <<[id |-> 1]>>, <<[id |-> 2], [id |-> 1]>>,
                   <<[id |-> 1], [id |-> 0]>>},
     priority : {<<>>, <<[id |-> 1]>>}]

\* part_000 28-29: the two list requests of fetchHistory.
ListEndpoints == {"/history", "/priority-history"}

HistoryDetail_endpoint_Swapped(type) ==
    IF type = "crosscheck" THEN "/priority-history" ELSE "/history"

\* HistoryDetail.jsx 26-28: the endpoint of the detail request.
HistoryDetail_endpoint(type) ==
    IF type = "crosscheck" THEN "/history" ELSE "/priority-history"

\* axios.get(url) for a list and for one record, as it leaves the client.
GetList(endpoint) == [method |-> "GET", endpoint |-> endpoint]
GetRecord(endpoint, id) == [method |-> "GET", endpoint |-> endpoint, id |-> id]

\* A sent request and the selection it was sent for.
Sent(request, selection) == [request |-> request, selected |-> selection]

\* part_000 82: const currentRecords = ...
currentRecords ==
    IF historyTab = "crosscheck" THEN crosscheckRecords ELSE priorityRecords

\* What the list area shows: part_000 65-79 (skeleton), 118-151 (cards).
History_cardsShown == IF historyLoading THEN <<>> ELSE currentRecords

Elements(list) == {list[i] : i \in 1..Len(list)}

MaxOpens == 2

HistoryIdle ==
    /\ stored = [crosscheck |-> <<>>, priority |-> <<>>]
    /\ historyTab = "crosscheck"
    /\ crosscheckRecords = <<>>
    /\ priorityRecords = <<>>
    /\ historyLoading = TRUE
    /\ historyError = NoError
    /\ selectedRecord = NoSelection
    /\ listRequests = [e \in ListEndpoints |-> "none"]
    /\ detailInstance = 0
    /\ detailData = NoData
    /\ detailLoading = TRUE
    /\ detailError = NoError
    /\ detailRequests = {}
    /\ requestLog = {}

\* part_000 13-18: the state History is constructed with.
HistoryInit ==
    /\ stored \in StoredHistories
    /\ historyTab = "crosscheck"
    /\ crosscheckRecords = <<>>
    /\ priorityRecords = <<>>
    /\ historyLoading = TRUE
    /\ historyError = NoError
    /\ selectedRecord = NoSelection
    /\ listRequests = [e \in ListEndpoints |-> "none"]
    /\ detailInstance = 0
    /\ detailData = NoData
    /\ detailLoading = TRUE
    /\ detailError = NoError
    /\ detailRequests = {}
    /\ requestLog = {}

detailVars ==
    <<detailInstance, detailData, detailLoading, detailError, detailRequests>>

HistoryOthers == <<coreVars, discrepancyVars, scorerVars, configVars, crossVars>>

\* part_000 20-29: the mount effect calls fetchHistory, up to the await.
fetchHistory ==
    /\ \A e \in ListEndpoints : listRequests[e] = "none"
    /\ historyLoading' = TRUE
    /\ historyError' = NoError
    /\ listRequests' = [e \in ListEndpoints |-> "pending"]
    /\ requestLog' =
          requestLog \cup {Sent(GetList(e), NoSelection) : e \in ListEndpoints}
    /\ UNCHANGED <<stored, historyTab, crosscheckRecords, priorityRecords,
                   selectedRecord, detailVars, HistoryOthers>>

\* part_000 27-32, 35-37: one of the two requests is answered.  Promise.all
\* is fulfilled by the second answer; the lists are stored then.
fetchHistory_Fulfilled(e) ==
    /\ listRequests[e] = "pending"
    /\ listRequests' = [listRequests EXCEPT ![e] = "fulfilled"]
    /\ IF \A o \in ListEndpoints \ {e} : listRequests[o] = "fulfilled"
       THEN /\ crosscheckRecords' = stored.crosscheck
            /\ priorityRecords' = stored.priority
            /\ historyLoading' = FALSE
       ELSE UNCHANGED <<crosscheckRecords, priorityRecords, historyLoading>>
    /\ UNCHANGED <<stored, historyTab, historyError, selectedRecord, requestLog,
                   detailVars, HistoryOthers>>

\* How a list request fails: with no response, or with a response whose body
\* holds a detail string.
Rejections == {"rejected", "rejected with detail"}

\* part_000 27-37: one of the two requests fails.  Promise.all is rejected by
\* the first failure; catch and finally run then.  The catch does not look at
\* err.
fetchHistory_Rejected(e, failure) ==
    /\ listRequests[e] = "pending"
    /\ listRequests' = [listRequests EXCEPT ![e] = failure]
    /\ IF \A o \in ListEndpoints \ {e} : listRequests[o] \notin Rejections
       THEN /\ historyError' = HistoryLoadError
            /\ historyLoading' = FALSE
       ELSE UNCHANGED <<historyError, historyLoading>>
    /\ UNCHANGED <<stored, historyTab, crosscheckRecords, priorityRecords,
                   selectedRecord, requestLog, detailVars, HistoryOthers>>

\* part_000 99: a tab button; the buttons are there once the lists loaded and
\* lie under the detail overlay while a record is selected.
setHistoryTab(tab) ==
    /\ ~historyLoading
    /\ selectedRecord = NoSelection
    /\ tab # historyTab
    /\ historyTab' = tab
    /\ UNCHANGED <<stored, crosscheckRecords, priorityRecords, historyLoading,
                   historyError, selectedRecord, listRequests, requestLog,
                   detailVars, HistoryOthers>>

\* part_000 53-55 and 138, 146: a click on a card of the list shown; then
\* HistoryDetail is constructed (HistoryDetail.jsx 12-14) and its effect
\* calls fetchDetail up to the await (16-29).
handleRecordClick(record, type) ==
    /\ selectedRecord = NoSelection
    /\ type = historyTab
    /\ record \in Elements(History_cardsShown)
    /\ detailInstance < MaxOpens
    /\ selectedRecord' = [id |-> record.id, type |-> type]
    /\ detailInstance' = detailInstance + 1
    /\ detailData' = NoData
    /\ detailLoading' = TRUE
    /\ detailError' = NoError
    /\ IF record.id # 0
       THEN LET request == GetRecord(HistoryDetail_endpoint(type), record.id)
            IN /\ detailRequests' = detailRequests \cup
                     {[instance |-> detailInstance + 1, request |-> request]}
               /\ requestLog' = requestLog \cup
                     {Sent(request, [id |-> record.id, type |-> type])}
       ELSE UNCHANGED <<detailRequests, requestLog>>
    /\ UNCHANGED <<stored, historyTab, crosscheckRecords, priorityRecords,
                   historyLoading, historyError, listRequests, HistoryOthers>>

\* part_000 57-59: the close buttons of the detail (HistoryDetail.jsx 109-131),
\* which the loading skeleton (87-101) does not have.  HistoryDetail is
\* unmounted.
handleCloseDetail ==
    /\ selectedRecord # NoSelection
    /\ ~detailLoading
    /\ selectedRecord' = NoSelection
    /\ detailData' = NoData
    /\ detailLoading' = TRUE
    /\ detailError' = NoError
    /\ UNCHANGED <<stored, historyTab, crosscheckRecords, priorityRecords,
                   historyLoading, historyError, listRequests, requestLog,
                   detailInstance, detailRequests, HistoryOthers>>

\* The HistoryDetail that sent r is the one mounted now.
Mounted(r) == selectedRecord # NoSelection /\ r.instance = detailInstance

\* spec.md 3: the record the service returns for a detail request.
RecordDetail(request) ==
    [kind |-> "detail", endpoint |-> request.endpoint, id |-> request.id]

\* HistoryDetail.jsx 29-30, 33-35: the record arrives.  The setters of an
\* unmounted component change nothing.
fetchDetail_Success(r) ==
    /\ r \in detailRequests
    /\ detailRequests' = detailRequests \ {r}
    /\ IF Mounted(r)
       THEN /\ detailData' = RecordDetail(r.request)
            /\ detailLoading' = FALSE
            /\ UNCHANGED detailError
       ELSE UNCHANGED <<detailData, detailLoading, detailError>>
    /\ UNCHANGED <<stored, historyTab, crosscheckRecords, priorityRecords,
                   historyLoading, historyError, selectedRecord, listRequests,
                   requestLog, detailInstance, HistoryOthers>>

\* HistoryDetail.jsx 31-35: the request fails, with a detail from the service
\* or with no response (err.response undefined).
fetchDetail_Failed(r, message) ==
    /\ r \in detailRequests
    /\ detailRequests' = detailRequests \ {r}
    /\ IF Mounted(r)
       THEN /\ detailError' = message
            /\ detailLoading' = FALSE
            /\ UNCHANGED detailData
       ELSE UNCHANGED <<detailData, detailLoading, detailError>>
    /\ UNCHANGED <<stored, historyTab, crosscheckRecords, priorityRecords,
                   historyLoading, historyError, selectedRecord, listRequests,
                   requestLog, detailInstance, HistoryOthers>>

-----------------------------------------------------------------------------
(* App navigation and CrossCheckView (isDragging, which only styles the    *)
(* drop zone, is left out)                                                 *)

Tabs == {"priority", "crosscheck", "history"}

Ext_pptx == <<"p", "p", "t", "x">>

\* The files the user has: a workbook named in capitals, a presentation and
\* a PDF.
CrossFiles ==
    { File(<< <<"r">>, <<"X", "L", "S">> >>, <<>>),
      File(<< <<"d">>, Ext_pptx >>, <<>>),
      File(<< <<"n">>, <<"p", "d", "f">> >>, <<>>) }

\* What the user picks in the file dialogs: the workbook or, past the accept
\* filter, the PDF for the spreadsheet input, the presentation for the other.
Selections ==
    {<<f, "excel">> : f \in {g \in CrossFiles : extensionOf(g) # Ext_pptx}}
    \cup {<<f, "pptx">> : f \in {g \in CrossFiles : extensionOf(g) = Ext_pptx}}

\* What one drop can hold: one file, or two files in either order.
Drops ==
    {<<f>> : f \in CrossFiles}
    \cup {p \in CrossFiles \X CrossFiles : p[1] # p[2]}

\* CrossCheckView.jsx 46: the message for an extension that is not accepted.
UnsupportedExtension(ext) == <<"Tipo de archivo no soportado: .", ext>>

AnalyzeFallback == "Error en analisis. Por favor intenta de nuevo."
NetworkError == "Network Error"

\* CrossCheckView.jsx 38-50: processFiles, the setters applied file by file
\* to the state st = [excelFile, pptxFile, error].
RECURSIVE processFiles(_, _, _)
processFiles(files, i, st) ==
    IF i > Len(files) THEN st
    ELSE LET extension == extensionOf(files[i])
         IN processFiles(files, i + 1,
               IF extension = Ext_xlsx \/ extension = Ext_xls
               THEN [st EXCEPT !.excelFile = files[i]]
               ELSE IF extension = Ext_pptx
               THEN [st EXCEPT !.pptxFile = files[i]]
               ELSE [st EXCEPT !.error = UnsupportedExtension(extension)])

\* The failures of POST /analyze: err.response.data.detail, or no response
\* and err.message, which may be empty.
AnalyzeFailures ==
    {[detail |-> ServiceDetail, message |-> "Request failed with status code 500"],
     [detail |-> "", message |-> NetworkError],
     [detail |-> "", message |-> ""]}

handleAnalyze_errorMessage_DetailOnly(err) == err.detail

\* CrossCheckView.jsx 97: err.response?.data?.detail || err.message || '...'
handleAnalyze_errorMessage(err) ==
    IF err.detail # "" THEN err.detail
    ELSE IF err.message # "" THEN err.message
    ELSE AnalyzeFallback

\* spec.md 3: the AnalysisResult the service returns for the two files.
AnalysisResult(excel, pptx) ==
    [kind |-> "AnalysisResult", excel_info |-> excel.name, pptx_info |-> pptx.name]

MaxMounts == 2

\* CrossCheckView.jsx 12-17: the state a CrossCheckView is constructed with,
\* which is also what is kept of it while it is not mounted.
CrossCheckUnmounted ==
    /\ excelFile = NoFile
    /\ pptxFile = NoFile
    /\ crossLoading = FALSE
    /\ crossError = NoError
    /\ success = FALSE

CrossIdle ==
    /\ activeTab = "priority"
    /\ analysisResults = NoResult
    /\ CrossCheckUnmounted
    /\ viewInstance = 0
    /\ analyzeRequests = {}

\* App.jsx 13-15: the state App is constructed with.
CrossInit == CrossIdle

CrossOthers ==
    <<coreVars, discrepancyVars, scorerVars, configVars, historyVars>>

\* Navbar.jsx 17-20, App.jsx 32-48: a tab of the navigation bar.  Leaving the
\* cross-check tab unmounts CrossCheckView; entering it mounts a new one.
setActiveTab(tab) ==
    /\ tab # activeTab
    /\ tab = "crosscheck" => viewInstance < MaxMounts
    /\ activeTab' = tab
    /\ viewInstance' = IF tab = "crosscheck" THEN viewInstance + 1 ELSE viewInstance
    /\ excelFile' = NoFile
    /\ pptxFile' = NoFile
    /\ crossLoading' = FALSE
    /\ crossError' = NoError
    /\ success' = FALSE
    /\ UNCHANGED <<analysisResults, analyzeRequests, CrossOthers>>

\* CrossCheckView.jsx 29-36
handleDrop(files) ==
    /\ activeTab = "crosscheck"
    /\ LET st == processFiles(files, 1,
                    [excelFile |-> excelFile, pptxFile |-> pptxFile,
                     error |-> NoError])
       IN /\ excelFile' = st.excelFile
          /\ pptxFile' = st.pptxFile
          /\ crossError' = st.error
    /\ UNCHANGED <<activeTab, analysisResults, crossLoading, success,
                   viewInstance, analyzeRequests, CrossOthers>>

\* CrossCheckView.jsx 52-62
handleFileSelect(f, fileType) ==
    /\ activeTab = "crosscheck"
    /\ crossError' = NoError
    /\ IF fileType = "excel"
       THEN excelFile' = f /\ UNCHANGED pptxFile
       ELSE pptxFile' = f /\ UNCHANGED excelFile
    /\ UNCHANGED <<activeTab, analysisResults, crossLoading, success,
                   viewInstance, analyzeRequests, CrossOthers>>

\* CrossCheckView.jsx 64-72; the remove button is on the card of a file.
removeFile(fileType) ==
    /\ activeTab = "crosscheck"
    /\ IF fileType = "excel"
       THEN excelFile # NoFile /\ excelFile' = NoFile /\ UNCHANGED pptxFile
       ELSE pptxFile # NoFile /\ pptxFile' = NoFile /\ UNCHANGED excelFile
    /\ success' = FALSE
    /\ crossError' = NoError
    /\ UNCHANGED <<activeTab, analysisResults, crossLoading, viewInstance,
                   analyzeRequests, CrossOthers>>

MissingFiles == "Por favor sube tanto el archivo Excel como el PowerPoint."

\* CrossCheckView.jsx 201: disabled={!excelFile || !pptxFile || isLoading}
AnalyzeButtonEnabled ==
    excelFile # NoFile /\ pptxFile # NoFile /\ ~crossLoading

handleAnalyze_effect_NoGuard(excel, pptx) ==
    [started |-> TRUE, error |-> NoError,
     sent |-> {[file_excel |-> excel, file_ppt |-> pptx]}]

\* CrossCheckView.jsx 75-89: what handleAnalyze does up to the await, for the
\* files in the two slots: the early return, or the request it sends.
handleAnalyze_effect(excel, pptx) ==
    IF excel = NoFile \/ pptx = NoFile
    THEN [started |-> FALSE, error |-> MissingFiles, sent |-> {}]
    ELSE [started |-> TRUE, error |-> NoError,
          sent |-> {[file_excel |-> excel, file_ppt |-> pptx]}]

\* CrossCheckView.jsx 74-89: a click on the Analyze button, up to the await.
handleAnalyze ==
    /\ activeTab = "crosscheck"
    /\ AnalyzeButtonEnabled
    /\ LET effect == handleAnalyze_effect(excelFile, pptxFile)
       IN /\ crossError' = effect.error
          /\ IF effect.started
             THEN crossLoading' = TRUE /\ success' = FALSE
             ELSE UNCHANGED <<crossLoading, success>>
          /\ analyzeRequests' = analyzeRequests \cup
                {[instance |-> viewInstance, file_excel |-> q.file_excel,
                  file_ppt |-> q.file_ppt] : q \in effect.sent}
    /\ UNCHANGED <<activeTab, analysisResults, excelFile, pptxFile,
                   viewInstance, CrossOthers>>

\* The CrossCheckView that sent r is the one mounted now.
CrossMounted(r) == activeTab = "crosscheck" /\ r.instance = viewInstance

\* CrossCheckView.jsx 91-92, 98-100 and App.jsx 28-30: the result arrives.
\* The setters of an unmounted CrossCheckView change nothing;
\* onAnalysisComplete is App's setter.
handleAnalyze_Success(r) ==
    /\ r \in analyzeRequests
    /\ analyzeRequests' = analyzeRequests \ {r}
    /\ IF CrossMounted(r)
       THEN success' = TRUE /\ crossLoading' = FALSE
       ELSE UNCHANGED <<success, crossLoading>>
    /\ analysisResults' = AnalysisResult(r.file_excel, r.file_ppt)
    /\ UNCHANGED <<activeTab, excelFile, pptxFile, crossError, viewInstance,
                   CrossOthers>>

\* CrossCheckView.jsx 93-100: the request fails.
handleAnalyze_Failed(r, err) ==
    /\ r \in analyzeRequests
    /\ analyzeRequests' = analyzeRequests \ {r}
    /\ IF CrossMounted(r)
       THEN crossError' = handleAnalyze_errorMessage(err) /\ crossLoading' = FALSE
       ELSE UNCHANGED <<crossError, crossLoading>>
    /\ UNCHANGED <<activeTab, analysisResults, excelFile, pptxFile, success,
                   viewInstance, CrossOthers>>

-----------------------------------------------------------------------------
(* Specifications                                                          *)

CoreIdle == TierIdle /\ SeverityIdle /\ AggregateIdle /\ BatchIdle
LaterIdle ==
    DiscrepancyIdle /\ ScorerIdle /\ ConfigIdle /\ HistoryIdle /\ CrossIdle

TierSpecInit ==
    TierInit /\ SeverityIdle /\ AggregateIdle /\ BatchIdle /\ LaterIdle
SeveritySpecInit ==
    TierIdle /\ SeverityInit /\ AggregateIdle /\ BatchIdle /\ LaterIdle
AggregateSpecInit ==
    TierIdle /\ SeverityIdle /\ AggregateInit /\ BatchIdle /\ LaterIdle
BatchSpecInit ==
    /\ TierIdle /\ SeverityIdle /\ BatchInit /\ LaterIdle
    /\ weights \in WeightTables
    /\ factors = ExampleFactors
    /\ priorityResult = NoResult

TierRangeSpecInit ==
    TierRangeInit /\ SeverityIdle /\ AggregateIdle /\ BatchIdle /\ LaterIdle
DiscrepancySpecInit ==
    /\ CoreIdle /\ DiscrepancyInit /\ ScorerIdle /\ ConfigIdle /\ HistoryIdle
    /\ CrossIdle
ScorerSpecInit ==
    /\ CoreIdle /\ DiscrepancyIdle /\ ScorerInit /\ ConfigIdle /\ HistoryIdle
    /\ CrossIdle
ConfigSpecInit ==
    /\ CoreIdle /\ DiscrepancyIdle /\ ScorerIdle /\ ConfigInit /\ HistoryIdle
    /\ CrossIdle
HistorySpecInit ==
    /\ CoreIdle /\ DiscrepancyIdle /\ ScorerIdle /\ ConfigIdle /\ HistoryInit
    /\ CrossIdle
CrossSpecInit ==
    /\ CoreIdle /\ DiscrepancyIdle /\ ScorerIdle /\ ConfigIdle /\ HistoryIdle
    /\ CrossInit

TierNext == ClassifyScore
SeverityNext == ClassifySeverity
AggregateNext == Prioritize \/ PrioritizeRejected
BatchNext ==
    \/ \E f \in UserFiles : validateAndSetFile_Accept(f)
    \/ \E f \in UserFiles : validateAndSetFile_Reject(f)
    \/ removeBatchFile
    \/ handleProcess
    \/ handleProcess_Success
    \/ handleProcess_Detail
    \/ handleProcess_NoResponse

DiscrepancyNext == ValidateDiscrepancies \/ RenderDiscrepancies

ScorerNext ==
    \/ \E field \in SliderKeys, value \in SliderTexts :
          handleSliderChange(field, value)
    \/ handleCalculate
    \/ handleCalculate_Success
    \/ handleCalculate_Detail
    \/ handleCalculate_NoResponse

ConfigNext == LoadModule \/ \E name \in ServiceCalls : ServeCall(name)

HistoryNext ==
    \/ fetchHistory
    \/ \E e \in ListEndpoints : fetchHistory_Fulfilled(e)
    \/ \E e \in ListEndpoints, failure \in Rejections :
          fetchHistory_Rejected(e, failure)
    \/ \E tab \in {"crosscheck", "priority"} : setHistoryTab(tab)
    \/ \E record \in Elements(currentRecords), type \in {"crosscheck", "priority"} :
          handleRecordClick(record, type)
    \/ handleCloseDetail
    \/ \E r \in detailRequests : fetchDetail_Success(r)
    \/ \E r \in detailRequests, message \in {ServiceDetail, DetailFallback} :
          fetchDetail_Failed(r, message)

CrossNext ==
    \/ \E tab \in Tabs : setActiveTab(tab)
    \/ \E files \in Drops : handleDrop(files)
    \/ \E choice \in Selections : handleFileSelect(choice[1], choice[2])
    \/ \E fileType \in {"excel", "pptx"} : removeFile(fileType)
    \/ handleAnalyze
    \/ \E r \in analyzeRequests : handleAnalyze_Success(r)
    \/ \E r \in analyzeRequests, err \in AnalyzeFailures :
          handleAnalyze_Failed(r, err)

SpecTier == TierSpecInit /\ [][TierNext]_vars
SpecSeverity == SeveritySpecInit /\ [][SeverityNext]_vars
SpecAggregate == AggregateSpecInit /\ [][AggregateNext]_vars
SpecBatch == BatchSpecInit /\ [][BatchNext]_vars
SpecTierRange == TierRangeSpecInit /\ [][TierNext]_vars
SpecDiscrepancy == DiscrepancySpecInit /\ [][DiscrepancyNext]_vars
SpecScorer == ScorerSpecInit /\ [][ScorerNext]_vars
SpecConfig == ConfigSpecInit /\ [][ConfigNext]_vars
SpecHistory == HistorySpecInit /\ [][HistoryNext]_vars
SpecCross == CrossSpecInit /\ [][CrossNext]_vars

Init ==
    \/ TierSpecInit \/ SeveritySpecInit \/ AggregateSpecInit \/ BatchSpecInit
    \/ TierRangeSpecInit \/ DiscrepancySpecInit \/ ScorerSpecInit
    \/ ConfigSpecInit \/ HistorySpecInit \/ CrossSpecInit
Next ==
    \/ TierNext \/ SeverityNext \/ AggregateNext \/ BatchNext
    \/ DiscrepancyNext \/ ScorerNext \/ ConfigNext \/ HistoryNext
    \/ CrossNext
Spec == Init /\ [][Next]_vars

-----------------------------------------------------------------------------
(* Claims about score aggregation (SpecAggregate)                          *)

Scored == priorityResult.kind = "PriorityResult"

RECURSIVE SumShown(_, _)
SumShown(rows, i) ==
    IF i > Len(FactorKeys) THEN 0
    ELSE rows[FactorKeys[i]].contribution + SumShown(rows, i + 1)

\* The sum of the contributions of the rendered breakdown.
ContributionsShown == SumShown(ProjectScorer_breakdownRows(priorityResult), 1)

C2_RoundedAndClamped ==
    Scored =>
        /\ \A k \in KeySet :
              LET c == priorityResult.breakdown[k].contribution
                  p == factors[k] * weights[k]
              IN 100 * c - 50 <= p /\ p < 100 * c + 50
        /\ priorityResult.score =
              (IF ContributionsShown < 0 THEN 0
               ELSE IF ContributionsShown > 100 THEN 100 ELSE ContributionsShown)
        /\ priorityResult.score \in 0..100

\* A scored payload with a rounding tie whose contributions sum above 100.
C2_Witness ==
    /\ Scored
    /\ ContributionsShown > 100
    /\ \E k \in KeySet : (factors[k] * weights[k]) % 100 = 50

-----------------------------------------------------------------------------
(* Claims about tier classification (SpecTier)                             *)

Classified == tier # NoTier

BandUpper(i) == IF i = 1 THEN 100 ELSE TierTable[i - 1].lower - 1

BandsContaining(s) ==
    {i \in DOMAIN TierTable : TierTable[i].lower <= s /\ s <= BandUpper(i)}

\* C3: the bands partition [0,100]: every score lies in exactly one band, the
\* band the classifiers answer with, and the lower bounds grow with severity.
C3_BandsPartition ==
    /\ \A i \in 1..(Len(TierTable) - 1) : TierTable[i].lower > TierTable[i + 1].lower
    /\ Classified =>
          /\ Cardinality(BandsContaining(score)) = 1
          /\ \A i \in BandsContaining(score) :
                /\ tier = TierTable[i]
                /\ ColorOfClass(batchScoreColor) = TierTable[i].color
                /\ ColorOfClass(detailScoreColor) = TierTable[i].color

C3_Witness == Classified /\ score = 100 /\ tier.name = "Critical"

ExpectedBand(s) ==
    IF s \in 80..100 THEN <<"Critical", "red">>
    ELSE IF s \in 60..79 THEN <<"High", "orange">>
    ELSE IF s \in 40..59 THEN <<"Medium", "yellow">>
    ELSE <<"Low", "green">>

\* C4: 80..100 is Critical/red, 60..79 High/orange, 40..59 Medium/yellow and
\* 0..39 Low/green, and both priority views colour the score as its band.
C4_BandOfScore ==
    Classified =>
        /\ tier.name = ExpectedBand(score)[1]
        /\ tier.color = ExpectedBand(score)[2]
        /\ ColorOfClass(batchScoreColor) = ExpectedBand(score)[2]
        /\ ColorOfClass(detailScoreColor) = ExpectedBand(score)[2]

C4_Witness == Classified /\ score = 59 /\ tier.name = "Medium"

LowerEdgeInclusive ==
    \A i \in DOMAIN TierTable :
        score = TierTable[i].lower =>
            /\ tier = TierTable[i]
            /\ ColorOfClass(batchScoreColor) = TierTable[i].color
            /\ ColorOfClass(detailScoreColor) = TierTable[i].color

\* C5 as stated: classifyTier(79) is "Medium", classifyTier(80) is "Critical",
\* and every band includes its lower bound.
C5_Original ==
    Classified =>
        /\ score = 79 => tier.name = "Medium"
        /\ score = 80 => tier.name = "Critical"
        /\ LowerEdgeInclusive

\* C5 amended: classifyTier(79) is "High" (orange in both views),
\* classifyTier(80) is "Critical", and every band includes its lower bound.
C5_Amended ==
    Classified =>
        /\ score = 79 =>
              /\ tier.name = "High"
              /\ ColorOfClass(batchScoreColor) = "orange"
              /\ ColorOfClass(detailScoreColor) = "orange"
        /\ score = 80 => tier.name = "Critical"
        /\ LowerEdgeInclusive

C5_Witness == Classified /\ score = 79 /\ tier.name = "High"

-----------------------------------------------------------------------------
(* Claims about severity classification (SpecSeverity)                     *)

Rendered == dashboardStyles # NoStyles

\* Label a spells the lower-case word w in some letter case.
SpellsWord(a, w) ==
    /\ Len(a) = Len(w)
    /\ \A i \in 1..Len(w) : a[i] = w[i] \/ a[i] = UpperOf(w[i])

\* Labels a and b differ in letter case only.
SameButCase(a, b) ==
    /\ Len(a) = Len(b)
    /\ \A i \in 1..Len(a) : a[i] = b[i] \/ a[i] = UpperOf(b[i]) \/ b[i] = UpperOf(a[i])

IsHighSynonym(sev) ==
    sev.present /\ (SpellsWord(sev.text, W_high) \/ SpellsWord(sev.text, W_alta))
IsMediumSynonym(sev) ==
    sev.present /\ (SpellsWord(sev.text, W_medium) \/ SpellsWord(sev.text, W_media))

\* C6: every label, the empty and the missing one included, gets exactly one
\* of high, medium, low without an error, and low unless it is a synonym.
C6_SeverityTotal ==
    Rendered =>
        /\ SeverityClass(dashboardStyles) \in {"high", "medium", "low"}
        /\ SeverityClass(detailStyles) \in {"high", "medium", "low"}
        /\ ~(IsHighSynonym(severity) \/ IsMediumSynonym(severity)) =>
              /\ SeverityClass(dashboardStyles) = "low"
              /\ SeverityClass(detailStyles) = "low"

C6_Witness ==
    /\ Rendered
    /\ severity = Absent
    /\ SeverityClass(dashboardStyles) = "low"
    /\ SeverityClass(detailStyles) = "low"

\* C7: any casing of "high" or "alta" is high, any casing of "medium" or
\* "media" is medium, and labels that differ in case only share their class.
C7_CaseInsensitive ==
    Rendered =>
        /\ IsHighSynonym(severity) =>
              SeverityClass(dashboardStyles) = "high" /\ SeverityClass(detailStyles) = "high"
        /\ IsMediumSynonym(severity) =>
              SeverityClass(dashboardStyles) = "medium" /\ SeverityClass(detailStyles) = "medium"
        /\ severity.present =>
              \A other \in Labels :
                  SameButCase(other, severity.text) =>
                      /\ SeverityClass(ResultsDashboard_getSeverityStyles(Label(other)))
                            = SeverityClass(dashboardStyles)
                      /\ SeverityClass(HistoryDetail_getSeverityStyles(Label(other)))
                            = SeverityClass(detailStyles)

C7_Witness ==
    /\ Rendered
    /\ severity = Label(<<"M", "e", "D", "i", "A">>)
    /\ SeverityClass(dashboardStyles) = "medium"
    /\ SeverityClass(detailStyles) = "medium"

-----------------------------------------------------------------------------
(* Claims about batch scoring (SpecBatch)                                  *)

Ranked == results.kind = "BatchResult"

SheetValid == \A i \in DOMAIN sheet : ValidFactors(sheet[i].factors)

\* The rows of a ranking table are numbered 1..n in the order received, fall
\* in score, keep equal scores in input order, and start with a best project.
RankingInOrder(rows, received) ==
    /\ Len(rows) = Len(received)
    /\ \A i \in DOMAIN rows : rows[i].rank = i /\ rows[i].id = received[i].id
    /\ \A i, j \in DOMAIN rows :
          i < j => /\ rows[i].score >= rows[j].score
                   /\ rows[i].score = rows[j].score => rows[i].id < rows[j].id
    /\ \A i \in DOMAIN rows : rows[i].rank = 1 =>
          \A k \in DOMAIN sheet :
              aggregate(sheet[k].factors, weights).score <= rows[i].score

\* C8: the results of a BatchResult fall in score with ties in input order,
\* and both views show the i-th received result as rank i, a best one first.
C8_RankedStable ==
    Ranked =>
        /\ RankingInOrder(PriorityBatchView_rows(results), results.results)
        /\ RankingInOrder(PriorityDetail_rows(results), results.results)

\* Scores [55, 82, 82] are shown as 82 (second row), 82 (third row), 55.
C8_Witness ==
    /\ Ranked
    /\ Len(sheet) = 3
    /\ [i \in 1..3 |-> aggregate(sheet[i].factors, weights).score] = <<55, 82, 82>>
    /\ [i \in 1..3 |-> PriorityBatchView_rows(results)[i].id] = <<2, 3, 1>>
    /\ [i \in 1..3 |-> PriorityBatchView_rows(results)[i].score] = <<82, 82, 55>>

\* C9: total_projects is the number of results, so the count each view shows
\* is the number of rows it renders.
C9_CountIsRows ==
    Ranked =>
        /\ results.total_projects = Len(results.results)
        /\ PriorityBatchView_countShown(results) = Len(PriorityBatchView_rows(results))
        /\ PriorityDetail_countShown(results) = Len(PriorityDetail_rows(results))

C9_Witness ==
    /\ Ranked
    /\ PriorityBatchView_countShown(results) = 3
    /\ Len(PriorityDetail_rows(results)) = 3

\* C10: a batch with an invalid factor set at any position yields no
\* BatchResult: a result is received only for a batch whose projects are all
\* valid, and it ranks every one of them.
C10_AssembleAtomic ==
    /\ Ranked => SheetValid /\ Len(results.results) = Len(sheet)
    /\ (batchRequest # NoRequest /\ ~SheetValid) =>
           assemble(batchRequest.file.projects, weights).kind = "ValidationError"

\* A batch of three whose second project is invalid was processed and failed.
C10_Witness ==
    /\ Len(sheet) = 3
    /\ ValidFactors(sheet[1].factors)
    /\ ~ValidFactors(sheet[2].factors)
    /\ ValidFactors(sheet[3].factors)
    /\ ~isLoading
    /\ error = "invalid factor set"
    /\ ~Ranked

-----------------------------------------------------------------------------
(* Claims about discrepancy records (SpecDiscrepancy)                      *)

CardsRendered == dashboardCards # NotRendered

Validated == validation # <<>>

\* The items of the received list that validate (spec.md 4.4) turns down.
Refused(list) == {i \in 1..Len(list) : validate(list[i]).kind = "ValidationError"}

\* C11 as stated: a record without severity, without type or without a
\* non-empty description fails validation, and so neither view ever shows a
\* card for such a record.
C11_Original ==
    CardsRendered =>
        /\ \A c \in 1..Len(dashboardCards) : c \notin Refused(discrepancies)
        /\ \A c \in 1..Len(detailCards) : c \notin Refused(discrepancies)

\* C12: validate leaves its argument as it was, and validating the normalized
\* record of a valid item again returns that same result.
C12_ValidateIdempotent ==
    Validated =>
        \A i \in 1..Len(discrepancies) :
            /\ argumentsAfter[i] = discrepancies[i]
            /\ validation[i].kind = "Discrepancy" =>
                  validate(validation[i].record) = validation[i]

\* A valid item that normalization changed (a re-spelled severity, a trimmed
\* description) has been validated.
C12_Witness ==
    /\ Validated
    /\ \E i \in 1..Len(discrepancies) :
          /\ validation[i].kind = "Discrepancy"
          /\ validation[i].record.severity # discrepancies[i].severity
          /\ validation[i].record.description # discrepancies[i].description
          /\ argumentsAfter[i] = discrepancies[i]

-----------------------------------------------------------------------------
(* Claims about scores outside [0,100] (SpecTierRange)                     *)

\* C14 as stated: for a score outside [0,100] the classification fails with a
\* RangeError kind, and neither a tier nor a colour is returned for it.
C14_Original ==
    (Classified /\ score \notin 0..100) =>
        /\ tier = TierRangeError
        /\ ColorOfClass(batchScoreColor) = "none"
        /\ ColorOfClass(detailScoreColor) = "none"

-----------------------------------------------------------------------------
(* Claims about the ProjectScorer form (SpecScorer)                        *)

RequestInFlight == scoreRequest # NoRequest

\* C15: whatever sliders were moved before, the payload of the request sent
\* by handleCalculate has exactly the five factor keys, each with one value.
C15_PayloadKeys ==
    RequestInFlight =>
        /\ DOMAIN scoreRequest.payload = KeySet
        /\ Cardinality(DOMAIN scoreRequest.payload) = Len(FactorKeys)
        /\ \A k \in KeySet : scoreRequest.payload[k] \in Int

\* A request is in flight after two sliders were moved.
C15_Witness ==
    /\ RequestInFlight
    /\ Cardinality({k \in KeySet : scoreRequest.payload[k] # InitialFormData[k]}) = 2
    /\ DOMAIN scoreRequest.payload = KeySet

C25_Original ==
    scorerResult # NoResult =>
        \A k \in KeySet : scorerResult.breakdown[k].value = formData[k]

-----------------------------------------------------------------------------
(* Claims about the service configuration (SpecConfig)                     *)

Malformed == ~(ValidThresholds(config.thresholds) /\ ValidWeights(config.weights))

\* C17: a malformed configuration ends the load with a ConfigurationError; the
\* module is then never initialized and answers no call, so the error is
\* never put off to a call.
C17_FailsAtLoad ==
    /\ (Malformed /\ moduleState # "loading") =>
          moduleState = "ConfigurationError" /\ served = <<>>
    /\ moduleState = "initialized" => ~Malformed
    /\ served # <<>> => moduleState = "initialized"

\* The load of thresholds that are not decreasing has failed.
C17_Witness ==
    /\ moduleState = "ConfigurationError"
    /\ \E i \in 1..(Len(config.thresholds) - 1) :
          config.thresholds[i] < config.thresholds[i + 1]
    /\ ValidWeights(config.weights)

-----------------------------------------------------------------------------
(* Claims about the history view (SpecHistory)                             *)

Answered(e) == listRequests[e] \in {"fulfilled"} \cup Rejections

OnlyFailed(e) ==
    /\ listRequests[e] \in Rejections
    /\ \A o \in ListEndpoints \ {e} : listRequests[o] = "fulfilled"

\* C18 as stated: when exactly one of the two list requests fails, the records
\* the other one returned are stored and shown on their tab.
C18_Original ==
    /\ OnlyFailed("/priority-history") =>
          /\ crosscheckRecords = stored.crosscheck
          /\ historyTab = "crosscheck" => History_cardsShown = stored.crosscheck
    /\ OnlyFailed("/history") =>
          /\ priorityRecords = stored.priority
          /\ historyTab = "priority" => History_cardsShown = stored.priority

\* The endpoint that holds the records of a type.
EndpointOfType(type) ==
    CASE type = "crosscheck" -> "/history" [] type = "priority" -> "/priority-history"

\* C20: every request sent to a history endpoint is a GET, of a whole list or
\* of the selected record by its id on the endpoint of its type; and a stored
\* list is either the initial empty list or the list the service returned.
C20_ReadOnly ==
    /\ \A s \in requestLog :
          /\ s.request.method = "GET"
          /\ s.request.endpoint \in ListEndpoints
          /\ IF s.selected = NoSelection
             THEN DOMAIN s.request = {"method", "endpoint"}
             ELSE /\ s.request.endpoint = EndpointOfType(s.selected.type)
                  /\ s.request.id = s.selected.id
    /\ crosscheckRecords # <<>> =>
          crosscheckRecords = stored.crosscheck /\ Answered("/history")
    /\ priorityRecords # <<>> =>
          priorityRecords = stored.priority /\ Answered("/priority-history")

\* Both lists were stored, and the detail of priority record 1, whose id is
\* also the id of a cross-check record, was requested and is displayed.
C20_Witness ==
    /\ crosscheckRecords # <<>>
    /\ priorityRecords # <<>>
    /\ selectedRecord = [id |-> 1, type |-> "priority"]
    /\ Sent(GetRecord("/priority-history", 1), selectedRecord) \in requestLog
    /\ detailData = RecordDetail(GetRecord("/priority-history", 1))

-----------------------------------------------------------------------------
(* Claims about responses that arrive late (SpecCross)                     *)

\* The step in which the answer to request r arrives.
Arrives(r) == r \in analyzeRequests /\ analyzeRequests' = analyzeRequests \ {r}

\* C19 as stated: the answer to an analyze request whose CrossCheckView is no
\* longer mounted (the user left the cross-check tab) leaves the stored
\* analysis results, like all application state, as they were.
C19_Original ==
    [][\A r \in analyzeRequests :
          (Arrives(r) /\ ~CrossMounted(r)) =>
              UNCHANGED <<activeTab, analysisResults, excelFile, pptxFile,
                          crossLoading, crossError, success>>]_vars


-----------------------------------------------------------------------------
(* Claims about the cross-check view (SpecCross)                           *)

\* C21: the analyze request is issued only when both files are selected, and
\* it carries exactly the two files selected at that moment; with a file
\* missing the handler sets the missing-files message and sends nothing.
C21_AnalyzeSendsSelected ==
    /\ [](LET effect == handleAnalyze_effect(excelFile, pptxFile)
          IN IF excelFile = NoFile \/ pptxFile = NoFile
             THEN effect.sent = {} /\ effect.error = MissingFiles
             ELSE effect.sent = {[file_excel |-> excelFile,
                                  file_ppt |-> pptxFile]})
    /\ [][\A r \in analyzeRequests' \ analyzeRequests :
             /\ excelFile # NoFile /\ pptxFile # NoFile
             /\ r.file_excel = excelFile /\ r.file_ppt = pptxFile]_vars

\* The request of the mounted view is in flight with the two selected files.
C21_Witness ==
    /\ crossLoading
    /\ excelFile # NoFile /\ pptxFile # NoFile
    /\ \E r \in analyzeRequests :
          /\ r.instance = viewInstance
          /\ r.file_excel = excelFile /\ r.file_ppt = pptxFile


-----------------------------------------------------------------------------
(* Claims about the order of the discrepancy cards (SpecDiscrepancy)       *)

\* Card i of a rendering shows entry i of the list, under key i - 1.
ShowsInOrder(cards, list) ==
    /\ Len(cards) = Len(list)
    /\ \A i \in 1..Len(list) :
          /\ cards[i].index = i - 1
          /\ cards[i].severity = list[i].severity
          /\ cards[i].type = list[i].type
          /\ cards[i].description = list[i].description
          /\ cards[i].excel_value = shownIfTruthy(list[i].excel_value)
          /\ cards[i].pptx_value = shownIfTruthy(list[i].pptx_value)
          /\ cards[i].recommendation = shownIfTruthy(list[i].recommendation)

\* C22: the dashboard and the history detail show the discrepancies in the
\* order received, one card per entry, nothing sorted, dropped or repeated,
\* and the problem count they display is the length of the list.
C22_OrderAndCount ==
    CardsRendered =>
        /\ ShowsInOrder(dashboardCards, discrepancies)
        /\ ShowsInOrder(detailCards, discrepancies)
        /\ countsShown.dashboard = Len(discrepancies)
        /\ countsShown.detail = Len(discrepancies)

\* A low-severity entry received before a high-severity one was rendered.
C22_Witness ==
    /\ CardsRendered
    /\ Len(discrepancies) = 2
    /\ discrepancies[1].severity = Label(W_low)
    /\ discrepancies[2].severity = Label(<<"H", "I", "G", "H">>)
    /\ dashboardCards[1].severity = discrepancies[1].severity
    /\ dashboardCards[2].severity = discrepancies[2].severity
    /\ countsShown.detail = 2


-----------------------------------------------------------------------------
(* Claims about the error message of a failed request                      *)

\* Promise.all of fetchHistory was rejected, by failures that all carried a
\* detail string.
ListFailedWithDetail ==
    /\ \E e \in ListEndpoints : listRequests[e] = "rejected with detail"
    /\ \A e \in ListEndpoints : listRequests[e] # "rejected"

\* C23 as stated, for the history list: when the list request fails with a
\* response that carries a detail string, the history view's error message is
\* exactly that detail.
C23_Original == ListFailedWithDetail => historyError = ServiceDetail


-----------------------------------------------------------------------------
(* Claims about the two copies of getSeverityStyles (SpecSeverity)         *)

\* C24: for every severity label, a missing one, the empty one, any letter
\* case and unrecognized ones included, the function of the dashboard and the
\* function of the history detail return the same style set.
C24_SameStyles ==
    /\ ResultsDashboard_getSeverityStyles(severity)
          = HistoryDetail_getSeverityStyles(severity)
    /\ dashboardStyles # NoStyles => dashboardStyles = detailStyles

\* Both views rendered the label "ALTA" with the high style set.
C24_Witness ==
    /\ severity = Label(<<"A", "L", "T", "A">>)
    /\ dashboardStyles = StylesHigh
    /\ detailStyles = StylesHigh


\* C26 as stated: the cross-check view never has the success flag and an
\* error message set at the same time.
C26_Original == ~(success /\ crossError # NoError)


\* C27 as stated: the spreadsheet slot holds nothing or a file whose extension
\* is xlsx or xls, and the slide-deck slot nothing or a pptx file.
C27_Original ==
    /\ excelFile # NoFile => extensionOf(excelFile) \in {Ext_xlsx, Ext_xls}
    /\ pptxFile # NoFile => extensionOf(pptxFile) = Ext_pptx


-----------------------------------------------------------------------------
(* Claims about the end of loading (SpecHistory, SpecCross)                *)

\* C28 as stated, in its finite-run form: for every record clicked, whatever
\* its id, the detail panel leaves its loading state; a panel that is loading
\* therefore has its request in flight, whose answer ends the loading.
C28_Original ==
    (selectedRecord # NoSelection /\ detailLoading) =>
        \E r \in detailRequests : Mounted(r)


\* C29 as stated, for the cross-check view: while the view is displayed its
\* isLoading is true exactly while an analyze request of the view is in
\* flight, and at most one analyze request is in flight.
C29_Original ==
    /\ activeTab = "crosscheck" => (crossLoading <=> analyzeRequests # {})
    /\ Cardinality(analyzeRequests) <= 1


\* C30: the step in which an analyze request fails leaves analysisResults and
\* the two selected files as they were; in the view that sent the request,
\* success is false, loading has ended and the error message is set.
C30_FailureFrame ==
    [][\A r \in analyzeRequests, err \in AnalyzeFailures :
          handleAnalyze_Failed(r, err) =>
              /\ analysisResults' = analysisResults
              /\ excelFile' = excelFile /\ pptxFile' = pptxFile
              /\ CrossMounted(r) =>
                    /\ ~success'
                    /\ ~crossLoading'
                    /\ crossError' \notin {NoError, ""}
                    /\ crossError' \in {err.detail, err.message, AnalyzeFallback}]_vars

\* After a failure with no response: the network error is shown, nothing was
\* stored, and both files are still selected.
C30_Witness ==
    /\ activeTab = "crosscheck"
    /\ crossError = NetworkError
    /\ ~success /\ ~crossLoading
    /\ analysisResults = NoResult
    /\ excelFile # NoFile /\ pptxFile # NoFile
    /\ analyzeRequests = {}

====
